---- MODULE Spec2Model ----
(***************************************************************************)
(* VocabApp: the SM-2 review scheduler (lib/spaced-repetition/sm2.ts), the *)
(* word store service (lib/services/words.ts), the popup that saves a word *)
(* (components/pdf/WordPopup.tsx) and the review page that drives a review *)
(* session (ReviewPage).                                                   *)
(*                                                                         *)
(* Units.  An ease factor is held in thousandths (2.5 is 2500), so that    *)
(* the two-decimal rounding of sm2 is a real step.  A time is a whole      *)
(* number of days since the start of the run.                              *)
(*                                                                         *)
(* Specifications.  SpecSm2 runs sm2 on its own, call after call, from a   *)
(* range of input states, and SpecSm2Days does so over the days.  Spec is  *)
(* the application in one browser tab within a day: words are saved from   *)
(* the reader, the review page is opened and left, ratings are pressed and *)
(* their updateWord calls return or throw in any order.  SpecWord follows  *)
(* one word over the days, the vocabulary list included.  SpecDue runs the *)
(* review page on tables of three words saved on earlier days.             *)
(***************************************************************************)
EXTENDS Integers, Sequences, FiniteSets, Bags, TLC

\* ------------------------------------------------------------------ bounds
MaxInterval == 120      \* largest intervalDays a modelled review may produce
MaxEase == 3000         \* largest easeFactor (thousandths) a modelled review may produce
MaxReps == 8            \* largest repetitions a modelled review may produce
MaxTime == 1            \* last day the clock reaches
MaxMounts == 2          \* times the review page is opened in a run
MaxInFlight == 2        \* updateWord calls awaiting their outcome at once

\* --------------------------------------------------------------- variables
VARIABLES
    sm2State,     \* scheduler run: the SM2State the next sm2 call receives
    sm2Prev,      \* scheduler run: the SM2State the last sm2 call received
    sm2Quality,   \* scheduler run: the quality of the last sm2 call, -1 before the first
    easyRun,      \* scheduler run: number of consecutive quality-5 calls since
                  \* a state with repetitions = 0, 0 when the run is broken
    now,              \* the clock (new Date()), in days
    words,            \* the words table: spelling -> row, for the saved words
    written,          \* per saved word, how its row came to be: the time and
                      \* quality of the review last persisted (quality -1 and
                      \* the time of creation before any), whether a
                      \* successful review was ever persisted, and what wrote
                      \* its category last
    screen,           \* the page on screen: "reader" or "review"
    mounts,           \* number of times the review page was opened
    loading,          \* ReviewPage state
    fetchAsOf,        \* the time in the pending getDueWords query, -1 if none
    dueWords,         \* ReviewPage state: the rows fetched, in order
    currentIndex,     \* ReviewPage state: the cursor, from 0
    revealed,         \* ReviewPage state
    sessionComplete,  \* ReviewPage state
    reviewed,         \* ReviewPage state
    requests,         \* updateWord calls of handleReview awaiting their outcome
    popup,            \* the reader's word popup: the word it was opened on,
                      \* its saved flag, the error its Save button caught
    route,            \* the translation route: the bundled dictionary, its
                      \* cache, the request being served and its response
    lastEvent         \* what the last step did on the page on screen: a fetch
                      \* that returned, a review that was saved or failed, a
                      \* rating pressed again right after its failure

sm2Vars == <<sm2State, sm2Prev, sm2Quality, easyRun>>
pageVars == <<loading, fetchAsOf, dueWords, currentIndex, revealed, sessionComplete, reviewed>>
storeVars == <<now, words, written, screen, mounts, requests, lastEvent>>
vars == <<sm2State, sm2Prev, sm2Quality, easyRun, now, words, written, screen, mounts, loading,
          fetchAsOf, dueWords, currentIndex, revealed, sessionComplete,
          reviewed, requests, popup, route, lastEvent>>

\* ------------------------------------------------------------- sm2.ts
\* quality: the three buttons send 1, 3, 5; sm2 itself accepts any number.
Qualities == 0 .. 5

\* easeFactor < 1.3 -> 1.3
MinEase == 1300

\* Math.ceil of a non-negative quotient.
CeilDiv(a, b) == (a + b - 1) \div b

\* The pairs <<intervalDays, easeFactor>> with intervalDays <= 125 and
\* easeFactor <= 3.2 whose IEEE-754 double product intervalDays * easeFactor
\* lies above the exact product although the exact product is a whole number
\* (50 * 2.18 is 109.00000000000001): Math.ceil then returns one more.
DoubleProductAbove ==
    { <<25, 2200>>, <<25, 2240>>, <<45, 2200>>, <<50, 2180>>, <<50, 2200>>,
      <<50, 2220>>, <<50, 2240>>, <<55, 2200>>, <<75, 1360>>, <<75, 2240>>,
      <<75, 2720>>, <<85, 2200>>, <<90, 2200>>, <<90, 2700>>, <<95, 2200>>,
      <<100, 2180>>, <<100, 2200>>, <<100, 2220>>, <<100, 2240>>,
      <<100, 2430>>, <<100, 2450>>, <<100, 2470>>, <<100, 2490>>,
      <<105, 2200>>, <<110, 2200>>, <<115, 2200>> }

\* Math.ceil(intervalDays * easeFactor), in double arithmetic.
CeilProduct(intervalDays, easeFactor) ==
    CeilDiv(intervalDays * easeFactor, 1000)
        + (IF <<intervalDays, easeFactor>> \in DoubleProductAbove THEN 1 ELSE 0)

\* A coefficient slip: the quadratic term of the update is dropped.
EaseDeltaLinear(quality) == 100 - (5 - quality) * 80

\* 0.1 - (5 - quality) * (0.08 + (5 - quality) * 0.02), in thousandths.
EaseDelta(quality) == 100 - (5 - quality) * (80 + (5 - quality) * 20)

\* Math.round(easeFactor * 100) / 100: to the nearest hundredth, halves up.
Round2(easeFactor) == ((easeFactor + 5) \div 10) * 10

\* nextDate.setDate(nextDate.getDate() + intervalDays)
AddDays(date, intervalDays) == date + intervalDays

\* A slip: a failed review takes one repetition off instead of resetting.
nextRepetitionsDecrement(quality, state) ==
    IF quality >= 3 THEN state.repetitions + 1
    ELSE IF state.repetitions > 0 THEN state.repetitions - 1 ELSE 0

\* A slip: the first review of a new word is not counted.
nextRepetitionsFromSecond(quality, state) ==
    IF quality >= 3
    THEN IF state.intervalDays = 0 THEN 0 ELSE state.repetitions + 1
    ELSE 0

\* repetitions after the review: += 1 on success, 0 on failure.
nextRepetitions(quality, state) ==
    IF quality >= 3 THEN state.repetitions + 1 ELSE 0

\* A slip: the interval grows by the ease factor as updated by this review.
nextIntervalDaysNewEase(quality, state) ==
    IF quality >= 3
    THEN IF state.repetitions = 0 THEN 1
         ELSE IF state.repetitions = 1 THEN 6
         ELSE CeilProduct(state.intervalDays,
                          Round2(IF state.easeFactor + EaseDelta(quality) < MinEase
                                 THEN MinEase
                                 ELSE state.easeFactor + EaseDelta(quality)))
    ELSE 1

\* A slip: the second review has no interval of its own.
nextIntervalDaysNoSix(quality, state) ==
    IF quality >= 3
    THEN IF state.repetitions = 0 THEN 1
         ELSE CeilProduct(state.intervalDays, state.easeFactor)
    ELSE 1

\* A slip: the first review has no interval of its own.
nextIntervalDaysNoOne(quality, state) ==
    IF quality >= 3
    THEN IF state.repetitions = 0 THEN state.intervalDays
         ELSE IF state.repetitions = 1 THEN 6
         ELSE CeilProduct(state.intervalDays, state.easeFactor)
    ELSE 1

\* intervalDays after the review.
nextIntervalDays(quality, state) ==
    IF quality >= 3
    THEN IF state.repetitions = 0 THEN 1
         ELSE IF state.repetitions = 1 THEN 6
         ELSE CeilProduct(state.intervalDays, state.easeFactor)
    ELSE 1

\* A slip: the lower bound of the ease factor is not enforced.
nextEaseFactorNoClamp(quality, state) ==
    Round2(state.easeFactor + EaseDelta(quality))

\* A slip: the ease factor is updated by a successful review only.
nextEaseFactorSuccessOnly(quality, state) ==
    LET updated == IF quality >= 3 THEN state.easeFactor + EaseDelta(quality)
                   ELSE state.easeFactor
    IN  Round2(IF updated < MinEase THEN MinEase ELSE updated)

\* easeFactor after the review: updated, clamped, and rounded in the return.
nextEaseFactor(quality, state) ==
    LET updated == state.easeFactor + EaseDelta(quality)
    IN  Round2(IF updated < MinEase THEN MinEase ELSE updated)

\* A slip: the next review is counted from the date the word was due.
sm2FromDueDate(quality, state, today) ==
    [ repetitions  |-> nextRepetitions(quality, state),
      easeFactor   |-> nextEaseFactor(quality, state),
      intervalDays |-> nextIntervalDays(quality, state),
      nextReviewAt |-> AddDays(state.nextReviewAt, nextIntervalDays(quality, state)) ]

\* sm2(quality, state), reading the clock (new Date()) as `today`.
sm2(quality, state, today) ==
    [ repetitions  |-> nextRepetitions(quality, state),
      easeFactor   |-> nextEaseFactor(quality, state),
      intervalDays |-> nextIntervalDays(quality, state),
      nextReviewAt |-> AddDays(today, nextIntervalDays(quality, state)) ]

\* -------------------------------------------------- scheduler run (SpecSm2)
\* The states sm2 is started on: the creation default, the states of the
\* scenarios, states the reviews reach, and states only a direct caller of
\* sm2 can pass (an ease factor with three decimals, repetitions without an
\* interval).
RepetitionInputs == {0, 1, 2, 5}
EaseInputs == {1300, 1304, 1460, 2000, 2180, 2500, 2600, 2996}
IntervalInputs == {0, 1, 6, 30, 50}

NoState == [repetitions |-> 0, easeFactor |-> 2500, intervalDays |-> 0, nextReviewAt |-> 0]

\* fetchAsOf when no getDueWords query is pending.
NoQuery == -1

\* lastEvent after a step that ends no review and ends no fetch.  In an
\* event, promise is how the promise handleReview returned was settled,
\* failed the call that threw, sent the call a repeated rating made.
NoEvent == [kind |-> "none", index |-> 0, promise |-> "none",
            failed |-> {}, sent |-> {}]

\* The reader without a popup: no word selected, nothing saved or caught.
NoPopup == [word |-> "", saved |-> FALSE, error |-> "none"]

\* The state after construction, the scheduler run's first state and the
\* table apart: the reader on screen, no review page opened yet.
InitPages ==
    /\ sm2Prev = NoState
    /\ sm2Quality = -1
    /\ easyRun = 0
    /\ now = 0
    /\ screen = "reader"
    /\ mounts = 0
    /\ loading = FALSE
    /\ fetchAsOf = NoQuery
    /\ dueWords = << >>
    /\ currentIndex = 0
    /\ revealed = FALSE
    /\ sessionComplete = FALSE
    /\ reviewed = 0
    /\ requests = EmptyBag
    /\ popup = NoPopup
    /\ lastEvent = NoEvent

\* The words looked up, and the blank that a missing or empty parameter
\* leaves after .toLowerCase().trim().
LookupWords == {"spring", "ephemeral", "qzx"}
Blank == ""

\* A translation, or the null of a response without one.
Null == "null"

\* The route between two requests, over a bundled dictionary that has
\* entries for the words of dict; enZhDict is read from the file on first use.
RouteIdle(dict, enZhDict) ==
    [ dict |-> dict, enZhDict |-> enZhDict, phase |-> "idle", word |-> Blank,
      asked |-> << >>, online |-> "none",
      response |-> [status |-> 0, translation |-> Null, source |-> Null] ]

\* The same with no word saved and no translation asked for.
InitRest ==
    /\ InitPages
    /\ words = << >>
    /\ written = << >>
    /\ route = RouteIdle({}, "null")

InitSm2 ==
    /\ sm2State \in [ repetitions  : RepetitionInputs,
                      easeFactor   : EaseInputs,
                      intervalDays : IntervalInputs,
                      nextReviewAt : {0} ]
    /\ InitRest

\* One review of the run: sm2 applied to the state the last call returned.
Sm2Review(quality) ==
    LET next == sm2(quality, sm2State, now) IN
    /\ next.intervalDays <= MaxInterval
    /\ next.easeFactor <= MaxEase
    /\ next.repetitions <= MaxReps
    /\ sm2State' = next
    /\ sm2Prev' = sm2State
    /\ sm2Quality' = quality
    /\ easyRun' = IF quality # 5 THEN 0
                  ELSE IF sm2State.repetitions = 0 THEN 1
                  ELSE IF easyRun > 0 THEN easyRun + 1
                  ELSE 0
    /\ UNCHANGED <<pageVars, storeVars, popup, route>>

\* The clock moves on by a day.
Tick ==
    /\ now < MaxTime
    /\ now' = now + 1
    /\ lastEvent' = NoEvent
    /\ UNCHANGED <<sm2Vars, popup, route, pageVars, words, written, screen, mounts, requests>>

NextSm2 == \E quality \in Qualities : Sm2Review(quality)

SpecSm2 == InitSm2 /\ [][NextSm2]_vars

\* Calls of sm2 on the same day or days apart.
NextSm2Days ==
    \/ Tick
    \/ \E quality \in Qualities : Sm2Review(quality)

SpecSm2Days == InitSm2 /\ [][NextSm2Days]_vars

\* ------------------------------------------------------ words.ts, the store
Spellings == {"apple", "brook"}

\* A slip: the column is declared with one decimal, DECIMAL(4,1).
Decimal41(easeFactor) == ((easeFactor + 50) \div 100) * 100

\* ease_factor DECIMAL(4,2): the column keeps two decimals.
Decimal42(easeFactor) == Round2(easeFactor)

\* A slip: a new word is scheduled like a reviewed one, for the next day.
NewRowTomorrow(today) ==
    [ category       |-> "learning",
      repetitions    |-> 0,
      ease_factor    |-> Round2(2500),
      interval_days  |-> 0,
      next_review_at |-> today + 1 ]

\* The row saveWord inserts (WordPopup.tsx), next_review_at = new Date().
NewRow(today) ==
    [ category       |-> "learning",
      repetitions    |-> 0,
      ease_factor    |-> Decimal42(2500),
      interval_days  |-> 0,
      next_review_at |-> today ]

\* A fetched VocabWord: the row with its key.
VocabWord(id) ==
    [ id             |-> id,
      category       |-> words[id].category,
      repetitions    |-> words[id].repetitions,
      ease_factor    |-> words[id].ease_factor,
      interval_days  |-> words[id].interval_days,
      next_review_at |-> words[id].next_review_at ]

\* A slip: the rows come back latest first.
DescendingOrders(S) ==
    { order \in [1 .. Cardinality(S) -> S] :
        /\ \A i, j \in 1 .. Cardinality(S) : i # j => order[i] # order[j]
        /\ \A i, j \in 1 .. Cardinality(S) :
               i < j => words[order[i]].next_review_at >= words[order[j]].next_review_at }

\* The orders in which the rows S can come back under
\* .order("next_review_at", ascending): rows with equal times in any order.
AscendingOrders(S) ==
    { order \in [1 .. Cardinality(S) -> S] :
        /\ \A i, j \in 1 .. Cardinality(S) : i # j => order[i] # order[j]
        /\ \A i, j \in 1 .. Cardinality(S) :
               i < j => words[order[i]].next_review_at <= words[order[j]].next_review_at }

\* A slip: the filter on next_review_at is left out, every row comes back.
getDueWordsAll(asOf) ==
    { [i \in 1 .. Cardinality(DOMAIN words) |-> VocabWord(order[i])] :
          order \in AscendingOrders(DOMAIN words) }

\* getDueWords(): .lte("next_review_at", asOf).order("next_review_at")
getDueWords(asOf) ==
    LET due == { id \in DOMAIN words : words[id].next_review_at <= asOf }
    IN  { [i \in 1 .. Cardinality(due) |-> VocabWord(order[i])] :
              order \in AscendingOrders(due) }

\* The columns of a row that updateWord's Partial<VocabWord> can carry.
Columns == {"category", "repetitions", "ease_factor", "interval_days", "next_review_at"}

\* A slip: a write does not take a word back, the higher repetitions is kept.
updateWordKeepsHigher(id, updates) ==
    [ words EXCEPT ![id] =
        [ column \in Columns |->
            IF column \notin DOMAIN updates THEN words[id][column]
            ELSE IF column = "ease_factor" THEN Round2(updates[column])
            ELSE IF column = "repetitions" /\ words[id][column] > updates[column]
                 THEN words[id][column]
            ELSE updates[column] ] ]

\* A slip: the columns an update does not name fall back to their defaults.
updateWordResets(id, updates) ==
    [ words EXCEPT ![id] =
        [ column \in Columns |->
            IF column \notin DOMAIN updates THEN NewRow(now)[column]
            ELSE IF column = "ease_factor" THEN Round2(updates[column])
            ELSE updates[column] ] ]

\* The table after .update(updates).eq("id", id): the columns named in
\* updates are overwritten in one statement, the others are left.
updateWord(id, updates) ==
    [ words EXCEPT ![id] =
        [ column \in Columns |->
            IF column \notin DOMAIN updates THEN words[id][column]
            ELSE IF column = "ease_factor" THEN Decimal42(updates[column])
            ELSE updates[column] ] ]

\* The table after createWord's insert.
createWord(word, row) ==
    [ id \in DOMAIN words \cup {word} |-> IF id = word THEN row ELSE words[id] ]

\* lastEvent after a step that ends no review and ends no fetch.  In an
\* event, promise is how the promise handleReview returned was settled,
\* failed the call that threw, sent the call a repeated rating made.

\* The errors createWord throws: the one for the unique violation 23505 of
\* UNIQUE(user_id, word), and the one for a user who is not signed in.
AlreadyExists == "Word already exists in your vocabulary"
NotAuthenticated == "Not authenticated"

\* What createWord(word) can throw in this state ("none": it returns the row).
createWordThrows(word) ==
    {NotAuthenticated} \cup (IF word \in DOMAIN words THEN {AlreadyExists} ELSE {"none"})

\* msg.includes("already exists"), over the messages createWord throws.
IncludesAlreadyExists(msg) == msg = AlreadyExists

\* The record of the writes after an insert of word went through.
Inserted(word) ==
    [ id \in DOMAIN words \cup {word} |->
        IF id = word
        THEN [ at |-> now, quality |-> -1, succeeded |-> FALSE,
               rows |-> IF word \in DOMAIN words THEN written[word].rows + 1 ELSE 1,
               category |-> "create" ]
        ELSE written[id] ]

\* A slip: no unique constraint, the insert of a spelling the user has goes
\* through and the popup shows the new row.
saveWordAgain(word) ==
    /\ screen = "reader"
    /\ words' = createWord(word, NewRow(now))
    /\ written' = Inserted(word)
    /\ popup' = [word |-> word, saved |-> TRUE, error |-> "none"]
    /\ lastEvent' = [NoEvent EXCEPT !.kind = "saveWord"]
    /\ UNCHANGED <<sm2Vars, route, pageVars, now, screen, mounts, requests>>

\* WordPopup saveWord: createWord with the defaults; a spelling the user
\* already has is refused (23505) and the table is left as it is.  The popup
\* shows the word as saved after the insert and after that refusal, and only
\* logs any other error.
saveWord(word) ==
    /\ screen = "reader"
    /\ \E thrown \in createWordThrows(word) :
          /\ words' = IF thrown = "none" THEN createWord(word, NewRow(now)) ELSE words
          /\ written' = IF thrown = "none" THEN Inserted(word) ELSE written
          /\ popup' = [ word  |-> word,
                        saved |-> thrown = "none" \/ IncludesAlreadyExists(thrown),
                        error |-> thrown ]
    /\ lastEvent' = [NoEvent EXCEPT !.kind = "saveWord"]
    /\ UNCHANGED <<sm2Vars, route, pageVars, now, screen, mounts, requests>>

\* The category values of a row.
Categories == {"learning", "learned", "difficult"}

\* VocabPage handleUpdateCategory: the vocabulary list, reached off the review
\* page, sets the category of a listed word: updateWord(id, { category }).
handleUpdateCategory(id, category) ==
    /\ screen = "reader"
    /\ id \in DOMAIN words
    /\ words' = updateWord(id, [category |-> category])
    /\ written' = [written EXCEPT ![id].category = "list"]
    /\ popup' = NoPopup
    /\ lastEvent' = NoEvent
    /\ UNCHANGED <<sm2Vars, route, pageVars, now, screen, mounts, requests>>

\* ------------------------------------------------------------- ReviewPage
\* The pending calls once the page that made them is gone: their outcome still
\* reaches the store, their state setters do nothing.
Orphan(request) == [request EXCEPT !.onScreen = FALSE, !.index = 0]
Orphaned(bag) ==
    LET orphans == { Orphan(r) : r \in BagToSet(bag) }
    IN  [ o \in orphans |->
            LET sources == { r \in BagToSet(bag) : Orphan(r) = o }
                Sum[S \in SUBSET sources] ==
                    IF S = {} THEN 0
                    ELSE LET r == CHOOSE x \in S : TRUE
                         IN  CopiesIn(r, bag) + Sum[S \ {r}]
            IN  Sum[sources] ]

\* The review page is opened from the reader: useState defaults, then the
\* effect calls loadDueWords, which sends the getDueWords query.
Mount ==
    /\ screen = "reader"
    /\ mounts < MaxMounts
    /\ screen' = "review"
    /\ mounts' = mounts + 1
    /\ loading' = TRUE
    /\ fetchAsOf' = now
    /\ popup' = NoPopup
    /\ lastEvent' = NoEvent
    /\ UNCHANGED <<sm2Vars, route, now, words, written, requests, dueWords, currentIndex,
                   revealed, sessionComplete, reviewed>>

\* The review page is left for the reader: its state is dropped, its pending
\* query and calls have no page to report to.
Unmount ==
    /\ screen = "review"
    /\ screen' = "reader"
    /\ loading' = FALSE
    /\ fetchAsOf' = NoQuery
    /\ dueWords' = << >>
    /\ currentIndex' = 0
    /\ revealed' = FALSE
    /\ sessionComplete' = FALSE
    /\ reviewed' = 0
    /\ requests' = Orphaned(requests)
    /\ lastEvent' = NoEvent
    /\ UNCHANGED <<sm2Vars, popup, route, now, words, written, mounts>>

\* A slip: an empty result is stored like any other.
loadDueWordsFetchedAsIs ==
    /\ loading
    /\ \E due \in getDueWords(fetchAsOf) :
        /\ dueWords' = due
    /\ loading' = FALSE
    /\ fetchAsOf' = NoQuery
    /\ lastEvent' = [NoEvent EXCEPT !.kind = "fetched"]
    /\ UNCHANGED <<sm2Vars, popup, route, now, words, written, screen, mounts, requests,
                   currentIndex, revealed, reviewed, sessionComplete>>

\* loadDueWords after the await, getDueWords having returned rows.
loadDueWordsFetched ==
    /\ loading
    /\ \E due \in getDueWords(fetchAsOf) :
        /\ dueWords' = due
        /\ sessionComplete' = IF Len(due) = 0 THEN TRUE ELSE sessionComplete
    /\ loading' = FALSE
    /\ fetchAsOf' = NoQuery
    /\ lastEvent' = [NoEvent EXCEPT !.kind = "fetched"]
    /\ UNCHANGED <<sm2Vars, popup, route, now, words, written, screen, mounts, requests,
                   currentIndex, revealed, reviewed>>

\* loadDueWords after the await, getDueWords having thrown: the catch logs.
loadDueWordsFailed ==
    /\ loading
    /\ loading' = FALSE
    /\ fetchAsOf' = NoQuery
    /\ lastEvent' = NoEvent
    /\ UNCHANGED <<sm2Vars, popup, route, now, words, written, screen, mounts, requests, dueWords,
                   currentIndex, revealed, sessionComplete, reviewed>>

\* const currentWord = dueWords[currentIndex], rendered as the flashcard.
HasCurrentWord ==
    /\ screen = "review"
    /\ ~loading
    /\ ~sessionComplete
    /\ currentIndex < Len(dueWords)
currentWord == dueWords[currentIndex + 1]

\* The flashcard is tapped: !revealed && setRevealed(true).
Reveal ==
    /\ HasCurrentWord
    /\ ~revealed
    /\ revealed' = TRUE
    /\ lastEvent' = NoEvent
    /\ UNCHANGED <<sm2Vars, popup, route, now, words, written, screen, mounts, requests, loading, fetchAsOf,
                   dueWords, currentIndex, sessionComplete, reviewed>>

\* The review buttons are rendered: {revealed && (...)}.
RatingEnabled == HasCurrentWord /\ revealed

\* A slip: every successful review marks the word learned.
CategoryBySuccess(quality) ==
    IF quality >= 3 THEN "learned" ELSE IF quality = 1 THEN "difficult" ELSE "learning"

\* quality === 5 ? "learned" : quality === 1 ? "difficult" : "learning"
Category(quality) ==
    IF quality = 5 THEN "learned" ELSE IF quality = 1 THEN "difficult" ELSE "learning"

\* A slip: the category of the fetched row is sent back with the schedule.
ReviewUpdatesOldCategory(quality, word, today) ==
    LET newState == sm2(quality,
                        [ repetitions  |-> word.repetitions,
                          easeFactor   |-> word.ease_factor,
                          intervalDays |-> word.interval_days,
                          nextReviewAt |-> word.next_review_at ],
                        today)
    IN  [ repetitions    |-> newState.repetitions,
          ease_factor    |-> newState.easeFactor,
          interval_days  |-> newState.intervalDays,
          next_review_at |-> newState.nextReviewAt,
          category       |-> word.category ]

\* The updates handleReview passes to updateWord.
ReviewUpdates(quality, word, today) ==
    LET newState == sm2(quality,
                        [ repetitions  |-> word.repetitions,
                          easeFactor   |-> word.ease_factor,
                          intervalDays |-> word.interval_days,
                          nextReviewAt |-> word.next_review_at ],
                        today)
    IN  [ repetitions    |-> newState.repetitions,
          ease_factor    |-> newState.easeFactor,
          interval_days  |-> newState.intervalDays,
          next_review_at |-> newState.nextReviewAt,
          category       |-> Category(quality) ]

\* A slip: the new schedule is applied to the queued word before the store
\* has confirmed it.
handleReviewOptimistic(quality) ==
    LET updates == ReviewUpdates(quality, currentWord, now)
        request == [ onScreen |-> TRUE,
                     id       |-> currentWord.id,
                     index    |-> currentIndex,
                     quality  |-> quality,
                     at       |-> now,
                     updates  |-> updates ]
    IN
    /\ RatingEnabled
    /\ BagCardinality(requests) < MaxInFlight
    /\ requests' = requests (+) SetToBag({request})
    /\ dueWords' = [dueWords EXCEPT ![currentIndex + 1] =
                       [ id             |-> currentWord.id,
                         category       |-> updates.category,
                         repetitions    |-> updates.repetitions,
                         ease_factor    |-> updates.ease_factor,
                         interval_days  |-> updates.interval_days,
                         next_review_at |-> updates.next_review_at ]]
    /\ lastEvent' = IF /\ lastEvent.kind = "failed"
                       /\ lastEvent.index = currentIndex
                       /\ \E failed \in lastEvent.failed : failed.quality = quality
                    THEN [lastEvent EXCEPT !.kind = "retried", !.promise = "none",
                                           !.sent = {request}]
                    ELSE NoEvent
    /\ UNCHANGED <<sm2Vars, popup, route, now, words, written, screen, mounts, loading, fetchAsOf,
                   currentIndex, revealed, sessionComplete, reviewed>>

\* handleReview(quality) up to its await: a button is pressed, sm2 runs on
\* the fetched row and updateWord is called.
handleReview(quality) ==
    LET request == [ onScreen |-> TRUE,
                     id       |-> currentWord.id,
                     index    |-> currentIndex,
                     quality  |-> quality,
                     at       |-> now,
                     updates  |-> ReviewUpdates(quality, currentWord, now) ]
    IN
    /\ RatingEnabled
    /\ BagCardinality(requests) < MaxInFlight
    /\ requests' = requests (+) SetToBag({request})
    /\ lastEvent' = IF /\ lastEvent.kind = "failed"
                       /\ lastEvent.index = currentIndex
                       /\ \E failed \in lastEvent.failed : failed.quality = quality
                    THEN [lastEvent EXCEPT !.kind = "retried", !.promise = "none",
                                           !.sent = {request}]
                    ELSE NoEvent
    /\ UNCHANGED <<sm2Vars, popup, route, pageVars, now, words, written, screen, mounts>>

\* The pending calls with one call taken out.
Without(request) == requests (-) SetToBag({request})

\* A slip: the last word is taken for one that has a successor.
handleReviewSavedOffByOne(request) ==
    /\ request.id \in DOMAIN words
    /\ words' = updateWord(request.id, request.updates)
    /\ written' = [written EXCEPT ![request.id] =
                      [ at        |-> request.at,
                        quality   |-> request.quality,
                        succeeded |-> @.succeeded \/ request.quality >= 3,
                        rows      |-> @.rows,
                        category  |-> "review" ]]
    /\ requests' = Without(request)
    /\ IF request.onScreen
       THEN /\ reviewed' = reviewed + 1
            /\ revealed' = FALSE
            /\ IF request.index + 1 <= Len(dueWords)
               THEN /\ currentIndex' = currentIndex + 1
                    /\ sessionComplete' = sessionComplete
               ELSE /\ currentIndex' = currentIndex
                    /\ sessionComplete' = TRUE
            /\ lastEvent' = [NoEvent EXCEPT !.kind = "saved", !.index = request.index,
                                            !.promise = "fulfilled"]
       ELSE /\ UNCHANGED <<reviewed, revealed, currentIndex, sessionComplete>>
            /\ lastEvent' = NoEvent
    /\ UNCHANGED <<sm2Vars, popup, route, now, screen, mounts, loading, fetchAsOf, dueWords>>

\* A slip: completion is set from the rated word's place in the queue, so a
\* save of an earlier word clears it.
handleReviewSavedReopens(request) ==
    /\ request.id \in DOMAIN words
    /\ words' = updateWord(request.id, request.updates)
    /\ written' = [written EXCEPT ![request.id] =
                      [ at        |-> request.at,
                        quality   |-> request.quality,
                        succeeded |-> @.succeeded \/ request.quality >= 3,
                        rows      |-> @.rows,
                        category  |-> "review" ]]
    /\ requests' = Without(request)
    /\ IF request.onScreen
       THEN /\ reviewed' = reviewed + 1
            /\ revealed' = FALSE
            /\ IF request.index + 1 < Len(dueWords)
               THEN /\ currentIndex' = currentIndex + 1
                    /\ sessionComplete' = FALSE
               ELSE /\ currentIndex' = currentIndex
                    /\ sessionComplete' = TRUE
            /\ lastEvent' = [NoEvent EXCEPT !.kind = "saved", !.index = request.index,
                                            !.promise = "fulfilled"]
       ELSE /\ UNCHANGED <<reviewed, revealed, currentIndex, sessionComplete>>
            /\ lastEvent' = NoEvent
    /\ UNCHANGED <<sm2Vars, popup, route, now, screen, mounts, loading, fetchAsOf, dueWords>>

\* updateWord returns the updated row and handleReview goes on after its
\* await: the state setters run with the currentIndex and dueWords of the
\* render that was rated.  Setters of a page that is gone do nothing.
handleReviewSaved(request) ==
    /\ request.id \in DOMAIN words
    /\ words' = updateWord(request.id, request.updates)
    /\ written' = [written EXCEPT ![request.id] =
                      [ at        |-> request.at,
                        quality   |-> request.quality,
                        succeeded |-> @.succeeded \/ request.quality >= 3,
                        rows      |-> @.rows,
                        category  |-> "review" ]]
    /\ requests' = Without(request)
    /\ IF request.onScreen
       THEN /\ reviewed' = reviewed + 1
            /\ revealed' = FALSE
            /\ IF request.index + 1 < Len(dueWords)
               THEN /\ currentIndex' = currentIndex + 1
                    /\ sessionComplete' = sessionComplete
               ELSE /\ currentIndex' = currentIndex
                    /\ sessionComplete' = TRUE
            /\ lastEvent' = [NoEvent EXCEPT !.kind = "saved", !.index = request.index,
                                            !.promise = "fulfilled"]
       ELSE /\ UNCHANGED <<reviewed, revealed, currentIndex, sessionComplete>>
            /\ lastEvent' = NoEvent
    /\ UNCHANGED <<sm2Vars, popup, route, now, screen, mounts, loading, fetchAsOf, dueWords>>

\* A slip: the review that could not be saved is passed over.
handleReviewFailedSkips(request) ==
    /\ requests' = Without(request)
    /\ lastEvent' = IF request.onScreen
                    THEN [NoEvent EXCEPT !.kind = "failed", !.index = request.index,
                                         !.promise = "fulfilled", !.failed = {request}]
                    ELSE NoEvent
    /\ revealed' = IF request.onScreen THEN FALSE ELSE revealed
    /\ currentIndex' = IF request.onScreen /\ request.index + 1 < Len(dueWords)
                       THEN currentIndex + 1 ELSE currentIndex
    /\ UNCHANGED <<sm2Vars, popup, route, now, words, written, screen, mounts, loading, fetchAsOf, dueWords,
                   sessionComplete, reviewed>>

\* updateWord throws (if (error) throw error), the table unchanged, and
\* handleReview goes on in its catch, which logs and returns: the promise of
\* the async handleReview is fulfilled, as it is after a save.
handleReviewFailed(request) ==
    /\ requests' = Without(request)
    /\ lastEvent' = IF request.onScreen
                    THEN [NoEvent EXCEPT !.kind = "failed", !.index = request.index,
                                         !.promise = "fulfilled", !.failed = {request}]
                    ELSE NoEvent
    /\ UNCHANGED <<sm2Vars, popup, route, pageVars, now, words, written, screen, mounts>>

\* The steps of the review page and of its pending calls.
ReviewPage ==
    \/ Mount
    \/ Unmount
    \/ loadDueWordsFetched
    \/ loadDueWordsFailed
    \/ Reveal
    \/ \E quality \in {1, 3, 5} : handleReview(quality)
    \/ \E request \in BagToSet(requests) : handleReviewSaved(request)
    \/ \E request \in BagToSet(requests) : handleReviewFailed(request)

\* The application in one browser tab: one store, the reader and the review
\* page on screen in turn, the scheduler run at rest.
Init ==
    /\ sm2State = NoState
    /\ InitRest

\* Review sittings within one day, over the words of Spellings.
Next ==
    \/ \E word \in Spellings : saveWord(word)
    \/ ReviewPage

Spec == Init /\ [][Next]_vars

\* The table a run over the days starts on: empty, or holding a word as
\* two Easy reviews on earlier days left it ({2, 2.7, 6}, scheduled six days
\* ago for today).
EarlierTables ==
    { << >>,
      [ id \in {"apple"} |->
          [ category       |-> "learned",
            repetitions    |-> 2,
            ease_factor    |-> 2700,
            interval_days  |-> 6,
            next_review_at |-> 0 ] ] }

InitWord ==
    /\ sm2State = NoState
    /\ InitPages
    /\ words \in EarlierTables
    /\ written = [ id \in DOMAIN words |->
                     [ at |-> -6, quality |-> 5, succeeded |-> TRUE,
                       rows |-> 1, category |-> "review" ] ]
    /\ route = RouteIdle({}, "null")

\* One word over the days: saved, relabelled in the vocabulary list, and
\* reviewed in sittings days apart, one updateWord call fewer pending at a
\* time than within a day.
NextWord ==
    \/ Tick
    \/ \E word \in {"apple"} : saveWord(word)
    \/ \E category \in Categories : handleUpdateCategory("apple", category)
    \/ ReviewPage /\ BagCardinality(requests') < MaxInFlight

SpecWord == InitWord /\ [][NextWord]_vars

\* The tables a review sitting finds after days of use: three words saved
\* five, three and one day ago and never reviewed (Scenario D); the same with
\* one of them reviewed Easy earlier today and due tomorrow; the same with two
\* words saved at the same time.
SavedAgo(days) == NewRow(0 - days)
ReviewedToday ==
    [ category       |-> "learned",
      repetitions    |-> 1,
      ease_factor    |-> 2600,
      interval_days  |-> 1,
      next_review_at |-> 1 ]
DueTables ==
    { [apple |-> SavedAgo(3), brook |-> SavedAgo(1), cedar |-> SavedAgo(5)],
      [apple |-> SavedAgo(3), brook |-> ReviewedToday, cedar |-> SavedAgo(5)],
      [apple |-> SavedAgo(3), brook |-> SavedAgo(3), cedar |-> SavedAgo(5)] }

InitDue ==
    /\ sm2State = NoState
    /\ InitPages
    /\ words \in DueTables
    /\ written = [ id \in DOMAIN words |->
                     IF words[id].repetitions = 0
                     THEN [ at |-> words[id].next_review_at, quality |-> -1,
                            succeeded |-> FALSE, rows |-> 1, category |-> "create" ]
                     ELSE [ at |-> 0, quality |-> 5,
                            succeeded |-> TRUE, rows |-> 1, category |-> "review" ] ]
    /\ route = RouteIdle({}, "null")

\* Review sittings within one day over such a table, one updateWord call
\* fewer pending at a time than over the words of Spellings.
NextDue == ReviewPage /\ BagCardinality(requests') < MaxInFlight

SpecDue == InitDue /\ [][NextDue]_vars

\* ------------------------------------------------ api/translate/route.ts
\* What the call of the MyMemory service can come to: a translation, the word
\* sent back as it was, a body without translatedText, a status that is not
\* ok, or a fetch that throws.
OnlineOutcomes == {"translated", "echo", "empty", "notOk", "throws"}

\* NextResponse.json of a lookup, and of a request without a word.
Translated(translation, source) ==
    [status |-> 200, translation |-> translation, source |-> source]
MissingWord == [status |-> 400, translation |-> Null, source |-> Null]

\* GET up to its await: the word is read from the query; without one the
\* answer is 400; the dictionary is looked up (Step 1) and an entry answers
\* the request; without an entry the MyMemory service is called (Step 2).
GET(word) ==
    /\ route.phase # "fetching"
    /\ route' =
          IF word = Blank
          THEN [route EXCEPT !.phase = "responded", !.word = word, !.asked = << >>,
                             !.online = "none", !.response = MissingWord]
          ELSE IF word \in route.dict
          THEN [route EXCEPT !.enZhDict = "loaded", !.phase = "responded",
                             !.word = word, !.asked = <<"cedict">>, !.online = "none",
                             !.response = Translated("cedict", "cedict")]
          ELSE [route EXCEPT !.enZhDict = "loaded", !.phase = "fetching",
                             !.word = word, !.asked = <<"cedict", "mymemory">>,
                             !.online = "none",
                             !.response = [status |-> 0, translation |-> Null,
                                           source |-> Null]]
    /\ lastEvent' = NoEvent
    /\ UNCHANGED <<sm2Vars, pageVars, now, words, written, screen, mounts, requests, popup>>

\* GET after its await: a translation that is not the word itself answers the
\* request; anything else, a throw included, ends in the answer without one.
GETFetched(outcome) ==
    /\ route.phase = "fetching"
    /\ route' = [route EXCEPT
                    !.phase = "responded",
                    !.online = outcome,
                    !.response = IF outcome = "translated"
                                 THEN Translated("mymemory", "mymemory")
                                 ELSE Translated(Null, Null)]
    /\ lastEvent' = NoEvent
    /\ UNCHANGED <<sm2Vars, pageVars, now, words, written, screen, mounts, requests, popup>>

\* The route serving one request after another, over any bundled dictionary.
InitTranslate ==
    /\ sm2State = NoState
    /\ InitPages
    /\ words = << >>
    /\ written = << >>
    /\ route \in { RouteIdle(dict, "null") : dict \in SUBSET LookupWords }

NextTranslate ==
    \/ \E word \in LookupWords \cup {Blank} : GET(word)
    \/ \E outcome \in OnlineOutcomes : GETFetched(outcome)

SpecTranslate == InitTranslate /\ [][NextTranslate]_vars

\* ================================================================ claims
\* The three ratings of the review buttons.
ButtonQualities == {1, 3, 5}

\* The reviewed state matches the given scheduling fields.
Sm2PrevIs(repetitions, easeFactor, intervalDays) ==
    /\ sm2Prev.repetitions = repetitions
    /\ sm2Prev.easeFactor = easeFactor
    /\ sm2Prev.intervalDays = intervalDays

\* The ease factor a review of the given quality aims at, before rounding:
\* +0.10 for 5, -0.14 for 3, -0.54 for 1, not below 1.3.
EaseTarget(quality, easeFactor) ==
    LET moved == CASE quality = 5 -> easeFactor + 100
                   [] quality = 3 -> easeFactor - 140
                   [] quality = 1 -> easeFactor - 540
    IN  IF moved < 1300 THEN 1300 ELSE moved

\* C1: after any sequence of reviews with quality 1, 3 or 5 from a state whose
\* easeFactor is at least 1.3, the easeFactor sm2 returns is at least 1.3.
C1_EaseFactorAtLeastMin ==
    sm2Quality \in ButtonQualities => sm2State.easeFactor >= 1300

\* C1 witness: a failed review whose update falls below 1.3 and is clamped.
C1_Witness ==
    /\ sm2Quality = 1
    /\ sm2Prev.easeFactor >= 1300
    /\ sm2Prev.easeFactor - 540 < 1300
    /\ sm2State.easeFactor = 1300

\* C6: a successful review (quality >= 3) adds exactly one repetition and sets
\* intervalDays to 1 after repetitions 0, to 6 after repetitions 1, and
\* otherwise to Math.ceil(intervalDays * easeFactor) of the state before the
\* review, the ease factor being the one before this review's update.
C6_SuccessInterval ==
    sm2Quality >= 3 =>
        /\ sm2State.repetitions = sm2Prev.repetitions + 1
        /\ sm2Prev.repetitions = 0 => sm2State.intervalDays = 1
        /\ sm2Prev.repetitions = 1 => sm2State.intervalDays = 6
        /\ sm2Prev.repetitions >= 2 =>
               sm2State.intervalDays =
                   CeilProduct(sm2Prev.intervalDays, sm2Prev.easeFactor)

\* C6 witness: a successful review on repetitions >= 2 whose product is not a
\* whole number, with an ease factor the review changes.
C6_Witness ==
    /\ sm2Quality = 3
    /\ sm2Prev.repetitions >= 2
    /\ sm2Prev.intervalDays = 30
    /\ sm2Prev.easeFactor = 2180
    /\ sm2State.intervalDays = 66
    /\ sm2State.easeFactor = 2040

\* C7: a failed review (quality < 3) from any state yields repetitions 0 and
\* intervalDays 1, whatever they were before, also when the failure repeats.
C7_FailureResets ==
    (sm2Quality >= 0 /\ sm2Quality < 3) =>
        /\ sm2State.repetitions = 0
        /\ sm2State.intervalDays = 1

\* C7 witness: a failure that repeats: it is applied to the state an earlier
\* failed review returned (repetitions 0, due one day later).
C7_Witness ==
    /\ sm2Quality = 1
    /\ sm2Prev.repetitions = 0
    /\ sm2Prev.intervalDays = 1
    /\ sm2Prev.nextReviewAt = 1
    /\ sm2State.repetitions = 0
    /\ sm2State.intervalDays = 1

\* C8: the ease factor is updated on success and on failure alike: quality 5
\* adds 0.10, quality 3 subtracts 0.14, quality 1 subtracts 0.54, the result is
\* not below 1.3 and has two decimals (within half a hundredth of the clamped
\* value); Scenario A gives {1, 1, 2.6} and Scenario B gives {2, 6, 2.7}.
C8_EaseUpdate ==
    /\ sm2Quality \in ButtonQualities =>
           LET target == EaseTarget(sm2Quality, sm2Prev.easeFactor) IN
           /\ sm2State.easeFactor % 10 = 0
           /\ sm2State.easeFactor >= 1300
           /\ sm2State.easeFactor - target <= 5
           /\ target - sm2State.easeFactor < 5
           /\ sm2Prev.easeFactor % 10 = 0 => sm2State.easeFactor = target
    /\ (sm2Quality = 5 /\ Sm2PrevIs(0, 2500, 0)) =>
           /\ sm2State.repetitions = 1
           /\ sm2State.intervalDays = 1
           /\ sm2State.easeFactor = 2600
    /\ (sm2Quality = 5 /\ Sm2PrevIs(1, 2600, 1)) =>
           /\ sm2State.repetitions = 2
           /\ sm2State.intervalDays = 6
           /\ sm2State.easeFactor = 2700

\* C8 witness: Scenario B reached through Scenario A.
C8_Witness ==
    /\ sm2Quality = 5
    /\ easyRun = 2
    /\ Sm2PrevIs(1, 2600, 1)
    /\ sm2State.easeFactor = 2700

\* C9 as stated: quality 1 on {repetitions 5, easeFactor 2.0, intervalDays 30}
\* returns {repetitions 0, intervalDays 1, easeFactor 1.8}.
C9_ScenarioC_AsStated ==
    (sm2Quality = 1 /\ Sm2PrevIs(5, 2000, 30)) =>
        /\ sm2State.repetitions = 0
        /\ sm2State.intervalDays = 1
        /\ sm2State.easeFactor = 1800

\* C9 amended: quality 1 on {repetitions 5, easeFactor 2.0, intervalDays 30}
\* returns {repetitions 0, intervalDays 1, easeFactor 1.46}.
C9_ScenarioC ==
    (sm2Quality = 1 /\ Sm2PrevIs(5, 2000, 30)) =>
        /\ sm2State.repetitions = 0
        /\ sm2State.intervalDays = 1
        /\ sm2State.easeFactor = 1460

\* C9 witness: Scenario C has been run.
C9_Witness ==
    /\ sm2Quality = 1
    /\ Sm2PrevIs(5, 2000, 30)
    /\ sm2State.easeFactor < 2000

\* C10: from repetitions 0, successive quality-5 reviews give intervalDays 1,
\* then 6, then Math.ceil(6 * easeFactor), and each review's intervalDays is
\* at least that of the review before it.
C10_EasyIntervalsGrow ==
    /\ easyRun = 1 => sm2State.intervalDays = 1
    /\ easyRun = 2 => sm2State.intervalDays = 6
    /\ easyRun = 3 => sm2State.intervalDays = CeilProduct(6, sm2Prev.easeFactor)
    /\ easyRun >= 2 => sm2State.intervalDays >= sm2Prev.intervalDays

\* C10 witness: the fourth quality-5 review of a run, past the fixed intervals.
C10_Witness ==
    /\ easyRun = 4
    /\ sm2State.intervalDays > sm2Prev.intervalDays
    /\ sm2Prev.intervalDays > 6

\* The updateWord calls pending for the page on screen.
PendingOnScreen == { r \in BagToSet(requests) : r.onScreen }

\* C2: at most one review action is in flight at a time for the page on
\* screen: no second rating is accepted while an updateWord is pending.
C2_OneReviewInFlight ==
    \A r \in PendingOnScreen :
        /\ CopiesIn(r, requests) = 1
        /\ \A other \in PendingOnScreen : other = r

\* C3: when persisting a review fails, the step leaves the due queue, the
\* cursor, the reviewed count, the revealed flag and the completion flag as
\* they were: the same word stays presented with its rating buttons.
C3_FailureKeepsSession ==
    [][lastEvent'.kind = "failed" =>
           /\ UNCHANGED <<dueWords, currentIndex, reviewed, revealed,
                          sessionComplete, loading>>
           /\ RatingEnabled => RatingEnabled']_vars

\* C3 witness: a rating of the first word has just failed, and the word is
\* still presented, revealed, with nothing counted as reviewed.
C3_Witness ==
    /\ lastEvent.kind = "failed"
    /\ lastEvent.index = currentIndex
    /\ RatingEnabled
    /\ reviewed = 0
    /\ requests = EmptyBag

\* C4 as stated: each successful persistence adds one to the reviewed count,
\* resets revealed and advances the cursor by one, the session being marked
\* complete when the cursor passes the last index.
C4_SavedAdvances_AsStated ==
    [][lastEvent'.kind = "saved" =>
           /\ reviewed' = reviewed + 1
           /\ revealed' = FALSE
           /\ currentIndex' = currentIndex + 1
           /\ currentIndex' > Len(dueWords) - 1 => sessionComplete']_vars

\* C4 amended: each successful persistence adds one to the reviewed count and
\* resets revealed; the cursor advances by one when the rated word is not the
\* last of the queue, and otherwise stays while the session is marked complete.
C4_SavedAdvances ==
    [][lastEvent'.kind = "saved" =>
           /\ reviewed' = reviewed + 1
           /\ revealed' = FALSE
           /\ IF lastEvent'.index + 1 < Len(dueWords)
              THEN /\ currentIndex' = currentIndex + 1
                   /\ sessionComplete' = sessionComplete
              ELSE /\ currentIndex' = currentIndex
                   /\ sessionComplete']_vars

\* C4 witness: the second and last word of a queue has just been saved.
C4_Witness ==
    /\ lastEvent.kind = "saved"
    /\ lastEvent.index = 1
    /\ Len(dueWords) = 2
    /\ currentIndex = 1
    /\ reviewed = 2
    /\ ~revealed
    /\ sessionComplete

\* C5: once loading has finished the session is complete or presents the word
\* at the cursor (cursor < length of the due queue).
C5_CompleteOrActive ==
    (screen = "review" /\ ~loading) =>
        (sessionComplete \/ currentIndex < Len(dueWords))

\* C11: in every state of the store, the words being created with the
\* defaults and changed by reviews (and relabelled in the list), a word with
\* repetitions >= 1 has interval_days >= 1.
C11_IntervalWithRepetitions ==
    \A id \in DOMAIN words :
        words[id].repetitions >= 1 => words[id].interval_days >= 1

\* C11 witness: a third successful review has been persisted, its interval
\* the rounded-up product Math.ceil(6 * 2.7) = 17.
C11_Witness ==
    \E id \in DOMAIN words :
        /\ words[id].repetitions = 3
        /\ words[id].interval_days = 17
        /\ written[id].quality >= 3

\* C12: in every state of the store, a word whose repetitions is 0 has never
\* had a successful review (quality >= 3) persisted, or the review persisted
\* last for it was a failed one (quality < 3).
C12_ZeroRepetitions ==
    \A id \in DOMAIN words :
        words[id].repetitions = 0 =>
            \/ ~written[id].succeeded
            \/ written[id].quality >= 0 /\ written[id].quality < 3

\* C12 witness: a word with successful reviews behind it is back at
\* repetitions 0, a failed review being the last persisted.
C12_Witness ==
    \E id \in DOMAIN words :
        /\ words[id].repetitions = 0
        /\ written[id].succeeded
        /\ written[id].quality = 1
        /\ written[id].at = now

\* C13: sm2 is a deterministic function of its inputs: a call with the
\* quality and the state of the call before it returns what that call
\* returned, nextReviewAt included.
C13_SameInputsSameOutput ==
    [][(sm2Quality' = sm2Quality /\ sm2Prev' = sm2Prev) =>
           sm2State' = sm2State]_vars

\* Times a row may have been due at, for a review computed in a run.
DueTimes == -1 .. MaxTime + 1

CategoryOf(quality) ==
    CASE quality = 5 -> "learned"
      [] quality = 1 -> "difficult"
      [] OTHER -> "learning"

\* C15: the category sent with a review is "learned" for quality 5,
\* "difficult" for quality 1 and "learning" for any other quality; it is sent
\* in the one update that carries repetitions, ease_factor, interval_days and
\* next_review_at, and a step that changes a row makes all five columns those
\* of one pending review.
C15_CategoryWithReview ==
    /\ [](\A r \in BagToSet(requests) :
              /\ DOMAIN r.updates = {"category", "repetitions", "ease_factor",
                                     "interval_days", "next_review_at"}
              /\ r.updates.category = CategoryOf(r.quality))
    /\ [][\A id \in DOMAIN words :
             words'[id] # words[id] =>
                 \E r \in BagToSet(requests) :
                     /\ r.id = id
                     /\ requests' = Without(r)
                     /\ words'[id].category = CategoryOf(r.quality)
                     /\ words'[id].repetitions = r.updates.repetitions
                     /\ words'[id].ease_factor = r.updates.ease_factor
                     /\ words'[id].interval_days = r.updates.interval_days
                     /\ words'[id].next_review_at = r.updates.next_review_at]_vars

\* C15 witness: a Neutral review left one word "learning" and a Hard review
\* left another "difficult", each with the schedule of that review.
C15_Witness ==
    \E id, other \in DOMAIN words :
        /\ written[id].category = "review"
        /\ written[id].quality = 3
        /\ words[id].category = "learning"
        /\ words[id].repetitions = 1
        /\ written[other].category = "review"
        /\ written[other].quality = 1
        /\ words[other].category = "difficult"
        /\ words[other].repetitions = 0

\* The ids of the fetched rows, in order.
DueIds(rows) == { rows[i].id : i \in 1 .. Len(rows) }

\* C16: the queue a fetch returns holds exactly the words of the table whose
\* next_review_at is not after the time of the fetch, once each, as they are
\* in the table, in ascending next_review_at order; the session keeps that
\* queue and moves its cursor over it from the first row on, one row at a
\* time, so that the words are presented most overdue first.
C16_DueQueue ==
    /\ [][lastEvent'.kind = "fetched" =>
             /\ DueIds(dueWords') =
                    { id \in DOMAIN words : words[id].next_review_at <= fetchAsOf }
             /\ Len(dueWords') = Cardinality(DueIds(dueWords'))
             /\ \A i \in 1 .. Len(dueWords') :
                    dueWords'[i].next_review_at = words[dueWords'[i].id].next_review_at
             /\ \A i, j \in 1 .. Len(dueWords') :
                    i < j => dueWords'[i].next_review_at <= dueWords'[j].next_review_at
             /\ currentIndex' = 0]_vars
    /\ [][(screen = "review" /\ screen' = "review" /\ ~loading) =>
             /\ dueWords' = dueWords
             /\ currentIndex' \in {currentIndex, currentIndex + 1}]_vars
    /\ [](HasCurrentWord =>
             \A i \in 1 .. Len(dueWords) :
                 /\ i < currentIndex + 1 =>
                        dueWords[i].next_review_at <= currentWord.next_review_at
                 /\ i > currentIndex + 1 =>
                        dueWords[i].next_review_at >= currentWord.next_review_at)

\* C16 witness: Scenario D: the words due five, three and one day ago were
\* fetched in that order and the session, two reviews in, presents the third.
C16_Witness ==
    /\ Len(dueWords) = 3
    /\ dueWords[1].next_review_at = 0 - 5
    /\ dueWords[2].next_review_at = 0 - 3
    /\ dueWords[3].next_review_at = 0 - 1
    /\ HasCurrentWord
    /\ currentIndex = 2
    /\ reviewed = 2

\* The state the review page renders from.
Rendered == <<loading, sessionComplete, reviewed, revealed, currentIndex, dueWords>>

\* C17: a store error raised while a review is persisted is surfaced by the
\* page to its caller, not swallowed: the step in which the call fails rejects
\* the promise handleReview returned or changes what the page renders; and the
\* page sends no updateWord call of its own in that step.
C17_ErrorSurfaced ==
    [][lastEvent'.kind = "failed" =>
           /\ lastEvent'.promise = "rejected" \/ Rendered' # Rendered
           /\ BagCardinality(requests') = BagCardinality(requests) - 1]_vars

\* C18: when the rating of a failed persistence is pressed again, the call it
\* sends is for the same word and carries the repetitions, ease_factor and
\* interval_days of the call that failed: the retry is computed from the same
\* queued row.
C18_RetrySameSchedule ==
    lastEvent.kind = "retried" =>
        \A failed \in lastEvent.failed, sent \in lastEvent.sent :
            /\ sent.id = failed.id
            /\ sent.quality = failed.quality
            /\ sent.updates.repetitions = failed.updates.repetitions
            /\ sent.updates.ease_factor = failed.updates.ease_factor
            /\ sent.updates.interval_days = failed.updates.interval_days

\* C18 witness: an Easy rating of a new word failed and has just been pressed
\* again; the retry is pending with the schedule of a first Easy review.
C18_Witness ==
    /\ lastEvent.kind = "retried"
    /\ \E failed \in lastEvent.failed, sent \in lastEvent.sent :
           /\ failed.quality = 5
           /\ sent.updates.repetitions = 1
           /\ sent.updates.ease_factor = 2600
           /\ sent.updates.interval_days = 1
           /\ BagIn(sent, requests)
    /\ reviewed = 0

\* C19: while the same review page stays on screen, sessionComplete once true
\* stays true, and once loading is over no further getDueWords query is sent
\* and the queue is not replaced.
C19_CompleteStays ==
    [][(screen = "review" /\ screen' = "review") =>
           /\ sessionComplete => sessionComplete'
           /\ ~loading => /\ ~loading'
                          /\ fetchAsOf' = NoQuery
                          /\ dueWords' = dueWords]_vars

\* C19 witness: the session is complete and a step of it came after the
\* completion: the save of an earlier word's second rating has just landed.
C19_Witness ==
    /\ screen = "review"
    /\ sessionComplete
    /\ lastEvent.kind = "saved"
    /\ lastEvent.index + 1 < Len(dueWords)
    /\ reviewed > Len(dueWords)

\* C20: a fetch that returns no due word takes the session from loading
\* straight to complete with reviewed = 0: the step writes nothing to the store
\* and sends no call, and the complete session with an empty queue presents no
\* word and has no review counted or pending.
C20_EmptyComplete ==
    /\ [][(lastEvent'.kind = "fetched" /\ Len(dueWords') = 0) =>
             /\ loading /\ ~loading'
             /\ sessionComplete'
             /\ reviewed' = 0
             /\ words' = words
             /\ requests' = requests]_vars
    /\ []((screen = "review" /\ ~loading /\ sessionComplete /\ Len(dueWords) = 0) =>
             /\ reviewed = 0
             /\ ~HasCurrentWord
             /\ PendingOnScreen = {})

\* C20 witness: a second sitting of the day, its words all reviewed in the
\* first, has just fetched an empty queue and is complete.
C20_Witness ==
    /\ screen = "review"
    /\ lastEvent.kind = "fetched"
    /\ Len(dueWords) = 0
    /\ sessionComplete
    /\ reviewed = 0
    /\ mounts = 2
    /\ \E id \in DOMAIN words : words[id].repetitions = 1

\* C21: a rating is computed from the row its own session fetched, whatever
\* the store holds by then, and a persisted update replaces the row's five
\* columns by its own, whatever another session wrote before it: the store
\* holds the fields of the update persisted last.
C21_LastWriteWins ==
    /\ [](\A r \in PendingOnScreen :
              /\ r.id = dueWords[r.index + 1].id
              /\ r.updates.repetitions =
                     IF r.quality >= 3 THEN dueWords[r.index + 1].repetitions + 1 ELSE 0)
    /\ [][\A r \in BagToSet(requests) :
             (requests' = Without(r) /\ <<words, written>>' # <<words, written>>) =>
                 /\ \A column \in {"category", "repetitions", "ease_factor",
                                    "interval_days", "next_review_at"} :
                        words'[r.id][column] = r.updates[column]
                 /\ \A id \in DOMAIN words \ {r.id} : words'[id] = words[id]]_vars

\* C21 witness: a second session fetched a word while the first session's Easy
\* rating of it was still on its way; that rating was persisted, the second
\* session rated the word Hard from the row it had fetched, and its update,
\* persisted last, is what the store holds.
C21_Witness ==
    /\ mounts = 2
    /\ screen = "review"
    /\ lastEvent.kind = "saved"
    /\ reviewed = 1
    /\ \E id \in DOMAIN words :
           /\ id = dueWords[lastEvent.index + 1].id
           /\ written[id].succeeded
           /\ written[id].quality = 1
           /\ words[id].repetitions = 0
           /\ words[id].ease_factor = 1960
           /\ words[id].category = "difficult"

\* The scheduling fields of a row or of an update.
Schedule(row) ==
    <<row.repetitions, row.ease_factor, row.interval_days, row.next_review_at>>

\* C22: a step changes the scheduling fields of a stored word only by
\* persisting one pending review, whose scheduler output they become and
\* which is pending no longer; a step that changes a word's category without
\* persisting a review, as the vocabulary list does, leaves the four fields as
\* they were.
C22_ScheduleByReviewOnly ==
    [][\A id \in DOMAIN words :
          /\ Schedule(words'[id]) # Schedule(words[id]) =>
                 \E r \in BagToSet(requests) :
                     /\ r.id = id
                     /\ requests' = Without(r)
                     /\ Schedule(words'[id]) = Schedule(r.updates)
          /\ (words'[id].category # words[id].category /\ requests' = requests) =>
                 Schedule(words'[id]) = Schedule(words[id])]_vars

\* C22 witness: a word with three successful reviews was relabelled
\* "difficult" in the vocabulary list and keeps the schedule of its last
\* review.
C22_Witness ==
    \E id \in DOMAIN words :
        /\ written[id].category = "list"
        /\ written[id].quality = 5
        /\ words[id].category = "difficult"
        /\ Schedule(words[id]) = <<3, 2800, 17, 17>>

\* C23: a word is created with category "learning", repetitions 0,
\* ease_factor 2.5, interval_days 0 and next_review_at the time of saving; and
\* a fetch of a session started at or after the saving of a word that has not
\* been reviewed returns the word.
C23_CreatedDue ==
    /\ [][\A id \in DOMAIN words' \ DOMAIN words :
             /\ words'[id].category = "learning"
             /\ Schedule(words'[id]) = <<0, 2500, 0, now>>]_vars
    /\ [][lastEvent'.kind = "fetched" =>
             \A id \in DOMAIN words :
                 (written[id].quality = -1 /\ written[id].at <= fetchAsOf) =>
                     id \in DueIds(dueWords')]_vars

\* C23 witness: a word saved on one day and left as it was is in the queue of
\* a session started the day after, with the values it was created with.
C23_Witness ==
    /\ lastEvent.kind = "fetched"
    /\ now = 1
    /\ \E i \in 1 .. Len(dueWords) :
           /\ written[dueWords[i].id].category = "create"
           /\ dueWords[i].category = "learning"
           /\ Schedule(dueWords[i]) = <<0, 2500, 0, 0>>

\* C24: the state sm2 returned in a review goes through the store unchanged:
\* the step that persists a review leaves in the row the repetitions, the
\* ease_factor (a value of two decimals), the interval_days and the
\* next_review_at that were sent, and a fetch returns for each row the four
\* values the row holds.
C24_RoundTrip ==
    /\ [][\A r \in BagToSet(requests) :
             (requests' = Without(r) /\ <<words, written>>' # <<words, written>>) =>
                 /\ words'[r.id].repetitions = r.updates.repetitions
                 /\ words'[r.id].ease_factor = r.updates.ease_factor
                 /\ words'[r.id].ease_factor % 10 = 0
                 /\ words'[r.id].interval_days = r.updates.interval_days
                 /\ words'[r.id].next_review_at = r.updates.next_review_at]_vars
    /\ [][lastEvent'.kind = "fetched" =>
             \A i \in 1 .. Len(dueWords') :
                 Schedule(dueWords'[i]) = Schedule(words[dueWords'[i].id])]_vars

\* C24 witness: a Neutral review of a new word returned {1, 2.36, 1, the next
\* day}; it was persisted, and the session of the next day has fetched the
\* word with these values.
C24_Witness ==
    /\ lastEvent.kind = "fetched"
    /\ now = 1
    /\ \E i \in 1 .. Len(dueWords) :
           /\ written[dueWords[i].id].quality = 3
           /\ written[dueWords[i].id].at = 0
           /\ Schedule(dueWords[i]) = <<1, 2360, 1, 1>>

\* C25 as stated: the category of every stored word is the one mapped from
\* the quality of the review persisted last for it, and "learning" if no
\* review of it was persisted.
C25_CategoryOfLastReview_AsStated ==
    \A id \in DOMAIN words :
        words[id].category =
            IF written[id].quality = -1 THEN "learning"
            ELSE CategoryOf(written[id].quality)

\* C25 amended: the category of a stored word is the one mapped from the
\* quality of the review persisted last for it, and "learning" if no review of
\* it was persisted, unless the word was relabelled in the vocabulary list
\* since its last review or creation: then it is the category chosen there.
C25_CategoryOfLastReview ==
    \A id \in DOMAIN words :
        /\ written[id].category = "review" =>
               words[id].category = CategoryOf(written[id].quality)
        /\ written[id].category = "create" => words[id].category = "learning"
        /\ written[id].category = "list" =>
               words[id].category \in {"learning", "learned", "difficult"}

\* C25 witness: a word that had been learned was rated Hard, and the store
\* holds it as "difficult" by that review.
C25_Witness ==
    \E id \in DOMAIN words :
        /\ written[id].category = "review"
        /\ written[id].succeeded
        /\ written[id].quality = 1
        /\ words[id].category = "difficult"

\* C26: a lookup asks the online MyMemory service first and consults the
\* bundled dictionary only when the online step has failed; and the
\* translation of the response is null only when neither the service nor the
\* dictionary yields one.
C26_OnlineFirst ==
    (route.phase = "responded" /\ route.word # Blank) =>
        /\ route.asked[1] = "mymemory"
        /\ (\E i \in 1 .. Len(route.asked) : route.asked[i] = "cedict") =>
               route.online \in OnlineOutcomes \ {"translated"}
        /\ route.response.translation = Null =>
               (route.word \notin route.dict /\ route.online # "translated")

\* C27: the store holds at most one row per spelling after any sequence of
\* saves: a save of a word the (signed-in) user already has is refused with
\* "Word already exists in your vocabulary", leaves the table, the scheduling
\* state of the existing row included, as it was, and the popup shows the
\* word as saved.
C27_OneRowPerSpelling ==
    /\ [](\A id \in DOMAIN words : written[id].rows <= 1)
    /\ [][\A word \in DOMAIN words :
             ( /\ lastEvent'.kind = "saveWord"
               /\ popup'.word = word
               /\ popup'.error # NotAuthenticated ) =>
                 /\ popup'.error = AlreadyExists
                 /\ words' = words
                 /\ popup'.saved ]_vars

\* A word that has been reviewed is saved again from the reader: the save is
\* refused, the popup shows the word as saved, the row keeps its schedule.
C27_Witness ==
    /\ lastEvent.kind = "saveWord"
    /\ popup.error = AlreadyExists
    /\ popup.saved
    /\ popup.word \in DOMAIN words
    /\ words[popup.word].repetitions = 1
    /\ words[popup.word].interval_days = 1
    /\ written[popup.word].rows = 1

\* C28 as stated, t being the time at which the write of the review reaches
\* the store: the row then has interval_days >= 1 and next_review_at >= t + 1.
C28_DueADayAfterPersisted ==
    [][\A id \in DOMAIN words :
          (written'[id] # written[id] /\ written'[id].category = "review") =>
              /\ words'[id].interval_days >= 1
              /\ words'[id].next_review_at >= now' + 1 ]_vars

\* C28: once a review of a word has been persisted (any quality), t being the
\* time at which the rating was given and sm2 ran, the word's interval_days is
\* >= 1 and its next_review_at is >= t + 1; and a due-word query that reads
\* the store after that write, asking for the words due at a time before
\* t + 1, does not return the word.
C28_DueADayAfterReview ==
    /\ [](\A id \in DOMAIN words :
             written[id].quality >= 0 =>
                 /\ words[id].interval_days >= 1
                 /\ words[id].next_review_at >= written[id].at + 1)
    /\ [][lastEvent'.kind = "fetched" =>
             \A id \in DOMAIN words :
                 (written[id].quality >= 0 /\ fetchAsOf < written[id].at + 1) =>
                     id \notin DueIds(dueWords') ]_vars

\* A word rated Again today, its write in the store, and a session opened
\* afterwards on the same day whose queue does not hold it.
C28_Witness ==
    /\ lastEvent.kind = "fetched"
    /\ mounts = 2
    /\ now = 0
    /\ "apple" \in DOMAIN words
    /\ written["apple"].category = "review"
    /\ written["apple"].quality = 1
    /\ written["apple"].at = 0
    /\ words["apple"].interval_days = 1
    /\ words["apple"].next_review_at = 1
    /\ "apple" \notin DueIds(dueWords)

====
